---- MODULE Spec2Model ----
(***************************************************************************)
(* A model of the two concurrent pipelines of YOLO-Density-Notifying:      *)
(*                                                                         *)
(*   - ApplicationHandler (src/scripts/LiveApplication.py): a capture      *)
(*     thread and a processing thread coupled by the bounded frame_queue   *)
(*     and the stop_event, started and joined by app_start_running;        *)
(*   - ThreadedVideoStreamer (src/densEstAI/core/stream/                   *)
(*     video_streaming.py): a worker thread feeding graph_queue, polled    *)
(*     by start_stream and shut down by stop_stream.                       *)
(*                                                                         *)
(* A frame is identified by the ordinal of the cap.read() call that        *)
(* returned it (1 for the first frame read).  Each thread is a program     *)
(* counter; one action is one blocking call or one test of the code.       *)
(***************************************************************************)
EXTENDS Integers, Sequences, FiniteSets

\* Longest finite source offered to ApplicationHandler (frames before the
\* first failed cap.read()).
MaxFrames == 8

\* queue.Queue(maxsize=5)
QueueMaxSize == 5

\* Longest finite source offered to ThreadedVideoStreamer.
MaxStreamFrames == 3

\* Number of stop_stream calls the caller makes at most.
MaxStopCalls == 2

VARIABLES
    \* ---- ApplicationHandler ----
    srcLen,        \* number of cap.read() calls that succeed on this source
    main_pc,       \* position of app_start_running
    cap_pc,        \* position of the camera_capture thread
    proc_pc,       \* position of the process_frames thread
    stop_event,    \* threading.Event: is_set()
    frame_queue,   \* queue.Queue(maxsize=5), head first
    released,      \* cap.release() has run
    nread,         \* successful cap.read() calls so far
    cap_frame,     \* the frame camera_capture holds (0: none)
    proc_frame,    \* the frame process_frames holds (0: none)
    processed,     \* frames whose try-body ran to its end, in order
    dropped,       \* frames whose put raised queue.Full
    capExit,       \* why camera_capture left its loop
    procExit,      \* why process_frames left its loop
    failedFrame,   \* the frame whose inference raised (0: none)
    putsAfterFail, \* frame_queue.put calls that returned after that failure
    enqueuedAfterStop, \* frames put on frame_queue while stop_event was set
    getsAfterStop, \* frames taken off frame_queue while stop_event was set
    log,           \* log_progress events per step_name
    emailSent,     \* email_manager.SendEmail calls
    \* ---- ThreadedVideoStreamer ----
    sSrcLen,       \* number of cap.read() calls that succeed on this source
    s_pc,          \* position of the caller of start_stream
    st_pc,         \* position of the caller of stop_stream
    stopSeq,       \* the stop_stream call began after start_stream had returned
    w_pc,          \* position of the worker thread run(); "none": self.thread is None
    running,       \* self.running
    capOpened,     \* self.cap.isOpened()
    frame_id,      \* self.frame_id
    w_frame,       \* the frame id run() is working on (0: none)
    graph_queue,   \* self.graph_queue, head first; a sample is named by its frame id
    produced,      \* samples put on graph_queue, in order
    plotted,       \* samples passed to plotter.update_live_density, in order
    discarded,     \* samples taken off graph_queue and thrown away
    tracked,       \* frame ids passed to tracking_object, in order
    written,       \* video_writer.write calls
    started,       \* start_stream has been called
    stopCalls,     \* stop_stream calls that have returned
    closeCapCalls, \* video_cap.close_cap calls
    closeWriterCalls \* video_writer.close_writer calls

appVars == <<srcLen, main_pc, cap_pc, proc_pc, stop_event, frame_queue,
             released, nread, cap_frame, proc_frame, processed, dropped,
             capExit, procExit, failedFrame, putsAfterFail,
             enqueuedAfterStop, getsAfterStop, log, emailSent>>

streamVars == <<sSrcLen, s_pc, st_pc, stopSeq, w_pc, running, capOpened, frame_id, w_frame,
                graph_queue, produced, plotted, discarded, tracked, written,
                started, stopCalls, closeCapCalls, closeWriterCalls>>

vars == <<appVars, streamVars>>

\* The log_progress step names the claims speak about.  'queue empty' is
\* logged on every idle poll and is not counted.
LogSteps == {"capture error", "queue full", "processing error",
             "thread error", "threads completed"}

\* self.log_progress(step_name=s, ...)
log_progress(s) == [log EXCEPT ![s] = @ + 1]

\* ApplicationHandler.__init__ (lines 15-34), before app_start_running
AppConstructed ==
    /\ main_pc = "start_capture"
    /\ cap_pc = "idle"
    /\ proc_pc = "idle"
    /\ stop_event = FALSE
    /\ frame_queue = <<>>
    /\ released = FALSE
    /\ nread = 0
    /\ cap_frame = 0
    /\ proc_frame = 0
    /\ processed = <<>>
    /\ dropped = {}
    /\ capExit = "none"
    /\ procExit = "none"
    /\ failedFrame = 0
    /\ putsAfterFail = 0
    /\ enqueuedAfterStop = 0
    /\ getsAfterStop = 0
    /\ log = [s \in LogSteps |-> 0]
    /\ emailSent = 0

\* ThreadedVideoStreamer.__init__ (lines 24-38, 66-70)
StreamConstructed ==
    /\ s_pc = "idle"
    /\ st_pc = "idle"
    /\ stopSeq = FALSE
    /\ w_pc = "none"
    /\ running = FALSE
    /\ capOpened = TRUE
    /\ frame_id = 0
    /\ w_frame = 0
    /\ graph_queue = <<>>
    /\ produced = <<>>
    /\ plotted = <<>>
    /\ discarded = 0
    /\ tracked = <<>>
    /\ written = 0
    /\ started = FALSE
    /\ stopCalls = 0
    /\ closeCapCalls = 0
    /\ closeWriterCalls = 0

\* ApplicationHandler on a source of srcLen frames; the streamer is not run.
Init ==
    /\ srcLen \in 0..MaxFrames
    /\ AppConstructed
    /\ sSrcLen = 0
    /\ StreamConstructed

\* ThreadedVideoStreamer on a source of sSrcLen frames; the application is
\* not run.
StreamInit ==
    /\ sSrcLen \in 0..MaxStreamFrames
    /\ StreamConstructed
    /\ srcLen = 0
    /\ AppConstructed

----------------------------------------------------------------------------
(* camera_capture, LiveApplication.py lines 43-73 *)

\* line 49: while not self.stop_event.is_set()
CapWhile ==
    /\ cap_pc = "while"
    /\ IF stop_event
         THEN /\ cap_pc' = "done"
              /\ capExit' = "stop"
         ELSE /\ cap_pc' = "read"
              /\ UNCHANGED capExit
    /\ UNCHANGED <<srcLen, main_pc, proc_pc, stop_event, frame_queue, released,
                   nread, cap_frame, proc_frame, processed, dropped, procExit,
                   failedFrame, putsAfterFail, log, emailSent>>
    /\ UNCHANGED <<enqueuedAfterStop, getsAfterStop>>
    /\ UNCHANGED streamVars

\* lines 50-55: ret, frame = self.cap.read(); if not ret: log error; break.
\* A released capture and an exhausted source both return ret = False.
CapRead ==
    /\ cap_pc = "read"
    /\ IF nread < srcLen /\ ~released
         THEN /\ nread' = nread + 1
              /\ cap_frame' = nread + 1
              /\ cap_pc' = "put"
              /\ UNCHANGED <<capExit, log>>
         ELSE /\ log' = log_progress("capture error")
              /\ cap_pc' = "done"
              /\ capExit' = "read_failed"
              /\ UNCHANGED <<nread, cap_frame>>
    /\ UNCHANGED <<srcLen, main_pc, proc_pc, stop_event, frame_queue, released,
                   proc_frame, processed, dropped, procExit, failedFrame,
                   putsAfterFail, emailSent>>
    /\ UNCHANGED <<enqueuedAfterStop, getsAfterStop>>
    /\ UNCHANGED streamVars

\* A frame enqueued while stop_event is set is counted.
CountEnqueue ==
    IF stop_event THEN enqueuedAfterStop + 1 ELSE enqueuedAfterStop

\* A frame dequeued while stop_event is set is counted.
CountGet == IF stop_event THEN getsAfterStop + 1 ELSE getsAfterStop

\* A put call that returns or raises after the inference failure is counted.
CountPut == IF procExit = "error" THEN putsAfterFail + 1 ELSE putsAfterFail

\* Faulty variant of CapPutOk: put ignores maxsize and always finds room.
CapPutOk_Unbounded ==
    /\ cap_pc = "put"
    /\ frame_queue' = Append(frame_queue, cap_frame)
    /\ putsAfterFail' = CountPut
    /\ cap_pc' = "waitKey"
    /\ UNCHANGED <<srcLen, main_pc, proc_pc, stop_event, released, nread,
                   cap_frame, proc_frame, processed, dropped, capExit,
                   procExit, failedFrame, log, emailSent>>
    /\ enqueuedAfterStop' = CountEnqueue
    /\ UNCHANGED getsAfterStop
    /\ UNCHANGED streamVars

\* line 58: self.frame_queue.put(frame, timeout=1) finds a free slot within
\* the wait.
CapPutOk ==
    /\ cap_pc = "put"
    /\ Len(frame_queue) < QueueMaxSize
    /\ frame_queue' = Append(frame_queue, cap_frame)
    /\ putsAfterFail' = CountPut
    /\ cap_pc' = "waitKey"
    /\ UNCHANGED <<srcLen, main_pc, proc_pc, stop_event, released, nread,
                   cap_frame, proc_frame, processed, dropped, capExit,
                   procExit, failedFrame, log, emailSent>>
    /\ enqueuedAfterStop' = CountEnqueue
    /\ UNCHANGED getsAfterStop
    /\ UNCHANGED streamVars

\* Faulty variant of CapPutFull: put without a timeout keeps waiting on a
\* full queue.
CapPutFull_Blocks ==
    /\ cap_pc = "put"
    /\ Len(frame_queue) = QueueMaxSize
    /\ UNCHANGED vars

\* lines 58-62: the queue is still full when the wait of 1 s elapses:
\* queue.Full is raised, 'queue full' is logged and the frame is skipped.
CapPutFull ==
    /\ cap_pc = "put"
    /\ Len(frame_queue) = QueueMaxSize
    /\ dropped' = dropped \cup {cap_frame}
    /\ log' = log_progress("queue full")
    /\ putsAfterFail' = CountPut
    /\ cap_pc' = "waitKey"
    /\ UNCHANGED <<srcLen, main_pc, proc_pc, stop_event, frame_queue, released,
                   nread, cap_frame, proc_frame, processed, capExit, procExit,
                   failedFrame, emailSent>>
    /\ UNCHANGED <<enqueuedAfterStop, getsAfterStop>>
    /\ UNCHANGED streamVars

\* lines 64-69: imshow; if waitKey(10) & 0xFF == ord("q"): set stop_event and
\* break.  The key is the user's choice.
CapWaitKey ==
    /\ cap_pc = "waitKey"
    /\ \E q \in BOOLEAN :
         IF q
           THEN /\ stop_event' = TRUE
                /\ cap_pc' = "done"
                /\ capExit' = "quit"
           ELSE /\ cap_pc' = "while"
                /\ UNCHANGED <<stop_event, capExit>>
    /\ cap_frame' = 0
    /\ UNCHANGED <<srcLen, main_pc, proc_pc, frame_queue, released, nread,
                   proc_frame, processed, dropped, procExit, failedFrame,
                   putsAfterFail, log, emailSent>>
    /\ UNCHANGED <<enqueuedAfterStop, getsAfterStop>>
    /\ UNCHANGED streamVars

camera_capture == CapWhile \/ CapRead \/ CapPutOk \/ CapPutFull \/ CapWaitKey

----------------------------------------------------------------------------
(* process_frames, LiveApplication.py lines 75-118 *)

\* Faulty variant of ProcWhile: the loop never tests stop_event.
ProcWhile_IgnoresStop ==
    /\ proc_pc = "while"
    /\ proc_pc' = "get"
    /\ UNCHANGED <<srcLen, main_pc, cap_pc, stop_event, frame_queue, released,
                   nread, cap_frame, proc_frame, processed, dropped, capExit,
                   procExit, failedFrame, putsAfterFail, log, emailSent>>
    /\ UNCHANGED <<enqueuedAfterStop, getsAfterStop>>
    /\ UNCHANGED streamVars

\* Faulty variant of ProcWhile: after the signal the loop goes on until the
\* queue is empty.
ProcWhile_DrainsQueue ==
    /\ proc_pc = "while"
    /\ IF stop_event /\ frame_queue = <<>>
         THEN /\ proc_pc' = "done"
              /\ procExit' = "stop"
         ELSE /\ proc_pc' = "get"
              /\ UNCHANGED procExit
    /\ UNCHANGED <<srcLen, main_pc, cap_pc, stop_event, frame_queue, released,
                   nread, cap_frame, proc_frame, processed, dropped, capExit,
                   failedFrame, putsAfterFail, log, emailSent>>
    /\ UNCHANGED <<enqueuedAfterStop, getsAfterStop>>
    /\ UNCHANGED streamVars

\* line 81: while not self.stop_event.is_set()
ProcWhile ==
    /\ proc_pc = "while"
    /\ IF stop_event
         THEN /\ proc_pc' = "done"
              /\ procExit' = "stop"
         ELSE /\ proc_pc' = "get"
              /\ UNCHANGED procExit
    /\ UNCHANGED <<srcLen, main_pc, cap_pc, stop_event, frame_queue, released,
                   nread, cap_frame, proc_frame, processed, dropped, capExit,
                   failedFrame, putsAfterFail, log, emailSent>>
    /\ UNCHANGED <<enqueuedAfterStop, getsAfterStop>>
    /\ UNCHANGED streamVars

\* Faulty variant of ProcGetOk: get returns the newest frame, not the oldest.
ProcGetOk_Lifo ==
    /\ proc_pc = "get"
    /\ frame_queue /= <<>>
    /\ proc_frame' = frame_queue[Len(frame_queue)]
    /\ frame_queue' = SubSeq(frame_queue, 1, Len(frame_queue) - 1)
    /\ proc_pc' = "infer"
    /\ UNCHANGED <<srcLen, main_pc, cap_pc, stop_event, released, nread,
                   cap_frame, processed, dropped, capExit, procExit,
                   failedFrame, putsAfterFail, log, emailSent>>
    /\ getsAfterStop' = CountGet
    /\ UNCHANGED enqueuedAfterStop
    /\ UNCHANGED streamVars

\* Faulty variant of ProcGetOk: get returns the head and leaves it queued.
ProcGetOk_Peek ==
    /\ proc_pc = "get"
    /\ frame_queue /= <<>>
    /\ proc_frame' = Head(frame_queue)
    /\ proc_pc' = "infer"
    /\ UNCHANGED <<srcLen, main_pc, cap_pc, stop_event, frame_queue, released,
                   nread, cap_frame, processed, dropped, capExit, procExit,
                   failedFrame, putsAfterFail, log, emailSent>>
    /\ getsAfterStop' = CountGet
    /\ UNCHANGED enqueuedAfterStop
    /\ UNCHANGED streamVars

\* line 84: frame = self.frame_queue.get(timeout=1) returns the head.
ProcGetOk ==
    /\ proc_pc = "get"
    /\ frame_queue /= <<>>
    /\ proc_frame' = Head(frame_queue)
    /\ frame_queue' = Tail(frame_queue)
    /\ proc_pc' = "infer"
    /\ UNCHANGED <<srcLen, main_pc, cap_pc, stop_event, released, nread,
                   cap_frame, processed, dropped, capExit, procExit,
                   failedFrame, putsAfterFail, log, emailSent>>
    /\ getsAfterStop' = CountGet
    /\ UNCHANGED enqueuedAfterStop
    /\ UNCHANGED streamVars

\* lines 84, 105-109: the queue is still empty when the wait elapses:
\* queue.Empty, 'queue empty' is logged, sleep(0.1), next iteration.
ProcGetEmpty ==
    /\ proc_pc = "get"
    /\ frame_queue = <<>>
    /\ proc_pc' = "while"
    /\ UNCHANGED <<srcLen, main_pc, cap_pc, stop_event, frame_queue, released,
                   nread, cap_frame, proc_frame, processed, dropped, capExit,
                   procExit, failedFrame, putsAfterFail, log, emailSent>>
    /\ UNCHANGED <<enqueuedAfterStop, getsAfterStop>>
    /\ UNCHANGED streamVars

\* Faulty variant of ProcInfer: the handler logs the error and the loop goes
\* on (no break).
ProcInfer_NoBreak ==
    /\ proc_pc = "infer"
    /\ \E ok \in BOOLEAN :
         IF ok
           THEN /\ processed' = Append(processed, proc_frame)
                /\ UNCHANGED <<procExit, failedFrame, log>>
           ELSE /\ log' = log_progress("processing error")
                /\ failedFrame' = proc_frame
                /\ procExit' = "error"
                /\ UNCHANGED processed
    /\ proc_pc' = "while"
    /\ proc_frame' = 0
    /\ UNCHANGED <<srcLen, main_pc, cap_pc, stop_event, frame_queue, released,
                   nread, cap_frame, dropped, capExit, putsAfterFail,
                   emailSent>>
    /\ UNCHANGED <<enqueuedAfterStop, getsAfterStop>>
    /\ UNCHANGED streamVars

\* lines 85-103 and 110-114: resize, model.predict, calculate_density,
\* update_Live_pyplot, log.  Any of them may raise: 'processing error' is
\* logged and the loop is left by break.
ProcInfer ==
    /\ proc_pc = "infer"
    /\ \E ok \in BOOLEAN :
         IF ok
           THEN /\ processed' = Append(processed, proc_frame)
                /\ proc_pc' = "while"
                /\ UNCHANGED <<procExit, failedFrame, log>>
           ELSE /\ log' = log_progress("processing error")
                /\ failedFrame' = proc_frame
                /\ proc_pc' = "done"
                /\ procExit' = "error"
                /\ UNCHANGED processed
    /\ proc_frame' = 0
    /\ UNCHANGED <<srcLen, main_pc, cap_pc, stop_event, frame_queue, released,
                   nread, cap_frame, dropped, capExit, putsAfterFail,
                   emailSent>>
    /\ UNCHANGED <<enqueuedAfterStop, getsAfterStop>>
    /\ UNCHANGED streamVars

process_frames == ProcWhile \/ ProcGetOk \/ ProcGetEmpty \/ ProcInfer

----------------------------------------------------------------------------
(* app_start_running, LiveApplication.py lines 120-154 *)

\* line 131: capture_thread.start(); Thread.start may raise RuntimeError.
StartCapture ==
    /\ main_pc = "start_capture"
    /\ \E ok \in BOOLEAN :
         IF ok
           THEN /\ cap_pc' = "while"
                /\ main_pc' = "start_process"
           ELSE /\ main_pc' = "except"
                /\ UNCHANGED cap_pc
    /\ UNCHANGED <<srcLen, proc_pc, stop_event, frame_queue, released, nread,
                   cap_frame, proc_frame, processed, dropped, capExit,
                   procExit, failedFrame, putsAfterFail, log, emailSent>>
    /\ UNCHANGED <<enqueuedAfterStop, getsAfterStop>>
    /\ UNCHANGED streamVars

\* line 132: process_thread.start()
StartProcess ==
    /\ main_pc = "start_process"
    /\ \E ok \in BOOLEAN :
         IF ok
           THEN /\ proc_pc' = "while"
                /\ main_pc' = "join_capture"
           ELSE /\ main_pc' = "except"
                /\ UNCHANGED proc_pc
    /\ UNCHANGED <<srcLen, cap_pc, stop_event, frame_queue, released, nread,
                   cap_frame, proc_frame, processed, dropped, capExit,
                   procExit, failedFrame, putsAfterFail, log, emailSent>>
    /\ UNCHANGED <<enqueuedAfterStop, getsAfterStop>>
    /\ UNCHANGED streamVars

\* Faulty variant of JoinCapture: the join does not wait for the thread.
JoinCapture_NoWait ==
    /\ main_pc = "join_capture"
    /\ main_pc' = "join_process"
    /\ UNCHANGED <<srcLen, cap_pc, proc_pc, stop_event, frame_queue, released,
                   nread, cap_frame, proc_frame, processed, dropped, capExit,
                   procExit, failedFrame, putsAfterFail, log, emailSent>>
    /\ UNCHANGED <<enqueuedAfterStop, getsAfterStop>>
    /\ UNCHANGED streamVars

\* line 135: capture_thread.join()
JoinCapture ==
    /\ main_pc = "join_capture"
    /\ cap_pc = "done"
    /\ main_pc' = "join_process"
    /\ UNCHANGED <<srcLen, cap_pc, proc_pc, stop_event, frame_queue, released,
                   nread, cap_frame, proc_frame, processed, dropped, capExit,
                   procExit, failedFrame, putsAfterFail, log, emailSent>>
    /\ UNCHANGED <<enqueuedAfterStop, getsAfterStop>>
    /\ UNCHANGED streamVars

\* lines 136-140: process_thread.join(); log 'threads completed'
JoinProcess ==
    /\ main_pc = "join_process"
    /\ proc_pc = "done"
    /\ log' = log_progress("threads completed")
    /\ main_pc' = "finally"
    /\ UNCHANGED <<srcLen, cap_pc, proc_pc, stop_event, frame_queue, released,
                   nread, cap_frame, proc_frame, processed, dropped, capExit,
                   procExit, failedFrame, putsAfterFail, emailSent>>
    /\ UNCHANGED <<enqueuedAfterStop, getsAfterStop>>
    /\ UNCHANGED streamVars

\* lines 141-146: except Exception: log 'thread error'; SendEmail
Except ==
    /\ main_pc = "except"
    /\ log' = log_progress("thread error")
    /\ emailSent' = emailSent + 1
    /\ main_pc' = "finally"
    /\ UNCHANGED <<srcLen, cap_pc, proc_pc, stop_event, frame_queue, released,
                   nread, cap_frame, proc_frame, processed, dropped, capExit,
                   procExit, failedFrame, putsAfterFail>>
    /\ UNCHANGED <<enqueuedAfterStop, getsAfterStop>>
    /\ UNCHANGED streamVars

\* lines 147-154: finally: stop_event.set(); cap.release(); ...
Finally ==
    /\ main_pc = "finally"
    /\ stop_event' = TRUE
    /\ released' = TRUE
    /\ main_pc' = "done"
    /\ UNCHANGED <<srcLen, cap_pc, proc_pc, frame_queue, nread, cap_frame,
                   proc_frame, processed, dropped, capExit, procExit,
                   failedFrame, putsAfterFail, log, emailSent>>
    /\ UNCHANGED <<enqueuedAfterStop, getsAfterStop>>
    /\ UNCHANGED streamVars

app_start_running ==
    StartCapture \/ StartProcess \/ JoinCapture \/ JoinProcess \/ Except
    \/ Finally

----------------------------------------------------------------------------
(* ThreadedVideoStreamer.start_stream.run, video_streaming.py lines 75-91 *)

SU_worker == <<sSrcLen, s_pc, st_pc, stopSeq, capOpened, plotted, discarded, started,
               stopCalls, closeCapCalls, closeWriterCalls>>

\* line 76: while self.cap.isOpened() and self.running
WWhile ==
    /\ w_pc = "while"
    /\ w_pc' = IF capOpened /\ running THEN "read" ELSE "done"
    /\ UNCHANGED <<running, frame_id, w_frame, graph_queue, produced, tracked,
                   written>>
    /\ UNCHANGED SU_worker
    /\ UNCHANGED appVars

\* lines 77-80: ret, frame = self.cap.read(); self.frame_id += 1;
\* if not ret: break.  The id is advanced before ret is tested.
WRead ==
    /\ w_pc = "read"
    /\ frame_id' = frame_id + 1
    /\ IF frame_id < sSrcLen /\ capOpened
         THEN /\ w_frame' = frame_id + 1
              /\ w_pc' = "track"
         ELSE /\ w_frame' = 0
              /\ w_pc' = "done"
    /\ UNCHANGED <<running, graph_queue, produced, tracked, written>>
    /\ UNCHANGED SU_worker
    /\ UNCHANGED appVars

\* Faulty variant of WTrack: the tracker gets the id before the increment.
WTrack_StaleId ==
    /\ w_pc = "track"
    /\ tracked' = Append(tracked, frame_id - 1)
    /\ w_pc' = "put"
    /\ UNCHANGED <<running, frame_id, w_frame, graph_queue, produced, written>>
    /\ UNCHANGED SU_worker
    /\ UNCHANGED appVars

\* lines 81-84: smart_predict_yolo; tracking_object(self.tracker, results,
\* self.frame_id); calculate_density; draw_tracking_boxes
WTrack ==
    /\ w_pc = "track"
    /\ tracked' = Append(tracked, frame_id)
    /\ w_pc' = "put"
    /\ UNCHANGED <<running, frame_id, w_frame, graph_queue, produced, written>>
    /\ UNCHANGED SU_worker
    /\ UNCHANGED appVars

\* line 85: self.graph_queue.put(density); the queue is unbounded
WPut ==
    /\ w_pc = "put"
    /\ graph_queue' = Append(graph_queue, w_frame)
    /\ produced' = Append(produced, w_frame)
    /\ w_pc' = "write"
    /\ UNCHANGED <<running, frame_id, w_frame, tracked, written>>
    /\ UNCHANGED SU_worker
    /\ UNCHANGED appVars

\* line 86: self.video_writer.write(plot)
WWrite ==
    /\ w_pc = "write"
    /\ written' = written + 1
    /\ w_pc' = "waitKey"
    /\ UNCHANGED <<running, frame_id, w_frame, graph_queue, produced, tracked>>
    /\ UNCHANGED SU_worker
    /\ UNCHANGED appVars

\* lines 87-91: imshow; if waitKey(1) & 0xFF == ord('q'): running = False;
\* break
WWaitKey ==
    /\ w_pc = "waitKey"
    /\ \E q \in BOOLEAN :
         IF q
           THEN /\ running' = FALSE
                /\ w_pc' = "done"
           ELSE /\ w_pc' = "while"
                /\ UNCHANGED running
    /\ w_frame' = 0
    /\ UNCHANGED <<frame_id, graph_queue, produced, tracked, written>>
    /\ UNCHANGED SU_worker
    /\ UNCHANGED appVars

run == WWhile \/ WRead \/ WTrack \/ WPut \/ WWrite \/ WWaitKey

----------------------------------------------------------------------------
(* ThreadedVideoStreamer.start_stream, video_streaming.py lines 72-98 *)

SU_caller == <<sSrcLen, frame_id, w_frame, produced, tracked, written>>

\* lines 73, 93-94: self.running = True; the worker thread is created and
\* started
StartStream ==
    /\ s_pc = "idle"
    /\ ~started
    /\ stopCalls = 0
    /\ st_pc = "idle"
    /\ running' = TRUE
    /\ w_pc' = "while"
    /\ started' = TRUE
    /\ s_pc' = "alive"
    /\ UNCHANGED <<capOpened, graph_queue, plotted, discarded, stopCalls,
                   closeCapCalls, closeWriterCalls>>
    /\ UNCHANGED <<st_pc, stopSeq>>
    /\ UNCHANGED SU_caller
    /\ UNCHANGED appVars

\* line 96: while self.thread.is_alive(); start_stream returns when the
\* worker is found dead
PollAlive ==
    /\ s_pc = "alive"
    /\ s_pc' = IF w_pc /= "done" THEN "drain" ELSE "idle"
    /\ UNCHANGED <<w_pc, running, capOpened, graph_queue, plotted, discarded,
                   started, stopCalls, closeCapCalls, closeWriterCalls>>
    /\ UNCHANGED <<st_pc, stopSeq>>
    /\ UNCHANGED SU_caller
    /\ UNCHANGED appVars

\* Faulty variant of DrainGet: the newest sample is taken first.
DrainGet_Lifo ==
    /\ s_pc = "drain"
    /\ graph_queue /= <<>>
    /\ plotted' = Append(plotted, graph_queue[Len(graph_queue)])
    /\ graph_queue' = SubSeq(graph_queue, 1, Len(graph_queue) - 1)
    /\ UNCHANGED <<s_pc, w_pc, running, capOpened, discarded, started,
                   stopCalls, closeCapCalls, closeWriterCalls>>
    /\ UNCHANGED <<st_pc, stopSeq>>
    /\ UNCHANGED SU_caller
    /\ UNCHANGED appVars

\* process_graph_queue, lines 103-104: density = get_nowait();
\* plotter.update_live_density(density)
DrainGet ==
    /\ s_pc = "drain"
    /\ graph_queue /= <<>>
    /\ plotted' = Append(plotted, Head(graph_queue))
    /\ graph_queue' = Tail(graph_queue)
    /\ UNCHANGED <<s_pc, w_pc, running, capOpened, discarded, started,
                   stopCalls, closeCapCalls, closeWriterCalls>>
    /\ UNCHANGED <<st_pc, stopSeq>>
    /\ UNCHANGED SU_caller
    /\ UNCHANGED appVars

\* process_graph_queue, lines 105-106, then line 98: queue.Empty ends the
\* drain; time.sleep(0.05)
DrainEmpty ==
    /\ s_pc = "drain"
    /\ graph_queue = <<>>
    /\ s_pc' = "alive"
    /\ UNCHANGED <<w_pc, running, capOpened, graph_queue, plotted, discarded,
                   started, stopCalls, closeCapCalls, closeWriterCalls>>
    /\ UNCHANGED <<st_pc, stopSeq>>
    /\ UNCHANGED SU_caller
    /\ UNCHANGED appVars

start_stream == StartStream \/ PollAlive \/ DrainGet \/ DrainEmpty

----------------------------------------------------------------------------
(* ThreadedVideoStreamer.stop_stream, video_streaming.py lines 108-123 *)
(* start_stream blocks its caller until the worker is dead, so a stop_stream *)
(* that is to stop a running stream comes from another thread.  A call      *)
(* begins before start_stream is called, while it polls, or after it has    *)
(* returned; start_stream is not entered while a stop_stream is under way.  *)

\* BaseVideoCap.close_cap releases the capture: isOpened() is False after it.
close_cap == FALSE

\* line 109: self.running = False
StopBegin ==
    /\ st_pc = "idle"
    /\ stopCalls < MaxStopCalls
    /\ running' = FALSE
    /\ st_pc' = "stop_join"
    /\ stopSeq' = (started /\ s_pc = "idle")
    /\ UNCHANGED s_pc
    /\ UNCHANGED <<w_pc, capOpened, graph_queue, plotted, discarded, started,
                   stopCalls, closeCapCalls, closeWriterCalls>>
    /\ UNCHANGED SU_caller
    /\ UNCHANGED appVars

\* Faulty variant of StopJoin: stop_stream does not join the worker.
StopJoin_NoWait ==
    /\ st_pc = "stop_join"
    /\ st_pc' = "stop_discard"
    /\ UNCHANGED <<s_pc, stopSeq>>
    /\ UNCHANGED <<w_pc, running, capOpened, graph_queue, plotted, discarded,
                   started, stopCalls, closeCapCalls, closeWriterCalls>>
    /\ UNCHANGED SU_caller
    /\ UNCHANGED appVars

\* lines 110-111: if self.thread is not None: self.thread.join()
StopJoin ==
    /\ st_pc = "stop_join"
    /\ w_pc \in {"none", "done"}
    /\ st_pc' = "stop_discard"
    /\ UNCHANGED <<s_pc, stopSeq>>
    /\ UNCHANGED <<w_pc, running, capOpened, graph_queue, plotted, discarded,
                   started, stopCalls, closeCapCalls, closeWriterCalls>>
    /\ UNCHANGED SU_caller
    /\ UNCHANGED appVars

\* lines 114-116: while not self.graph_queue.empty(): get_nowait(); the
\* sample is not used
StopDiscardGet ==
    /\ st_pc = "stop_discard"
    /\ graph_queue /= <<>>
    /\ graph_queue' = Tail(graph_queue)
    /\ discarded' = discarded + 1
    /\ UNCHANGED <<s_pc, st_pc, stopSeq, w_pc, running, capOpened, plotted,
                   started, stopCalls, closeCapCalls, closeWriterCalls>>
    /\ UNCHANGED SU_caller
    /\ UNCHANGED appVars

\* lines 114, 120-123: the queue is empty; if self.cap.isOpened():
\* close_cap(); if self.video_writer is not None: close_writer().
\* self.video_writer is set in __init__ and never reset to None.
StopClose ==
    /\ st_pc = "stop_discard"
    /\ graph_queue = <<>>
    /\ IF capOpened
         THEN /\ closeCapCalls' = closeCapCalls + 1
              /\ capOpened' = close_cap
         ELSE UNCHANGED <<closeCapCalls, capOpened>>
    /\ closeWriterCalls' = closeWriterCalls + 1
    /\ stopCalls' = stopCalls + 1
    /\ st_pc' = "idle"
    /\ UNCHANGED <<s_pc, stopSeq, w_pc, running, graph_queue, plotted,
                   discarded, started>>
    /\ UNCHANGED SU_caller
    /\ UNCHANGED appVars

stop_stream == StopBegin \/ StopJoin \/ StopDiscardGet \/ StopClose

----------------------------------------------------------------------------
Next == camera_capture \/ process_frames \/ app_start_running

Spec == Init /\ [][Next]_vars

StreamNext == run \/ start_stream \/ stop_stream

StreamSpec == StreamInit /\ [][StreamNext]_vars

\* The three threads of the application are operating-system threads: each is
\* scheduled again and again while it has a step to take.
FairSpec ==
    /\ Spec
    /\ WF_vars(camera_capture)
    /\ WF_vars(process_frames)
    /\ WF_vars(app_start_running)

----------------------------------------------------------------------------
(* Derived views of the state *)

Range(q) == {q[i] : i \in 1..Len(q)}

Min(a, b) == IF a <= b THEN a ELSE b

\* The frames of a source in the order cap.read() returns them.
Iota(n) == [i \in 1..n |-> i]

StrictlyIncreasing(q) == \A i, j \in 1..Len(q) : i < j => q[i] < q[j]

\* The frames process_frames has taken off frame_queue so far, in order: the
\* ones it finished, then the one it holds or the one that failed.
Dequeued ==
    processed \o (IF proc_frame /= 0 THEN <<proc_frame>>
                  ELSE IF failedFrame /= 0 THEN <<failedFrame>> ELSE <<>>)

\* The run has seen no user quit, no inference failure and no failed
\* Thread.start.
Undisturbed ==
    /\ capExit /= "quit"
    /\ procExit /= "error"
    /\ main_pc /= "except"
    /\ log["thread error"] = 0

\* app_start_running has returned with both threads terminated.
Completed ==
    /\ main_pc = "done"
    /\ cap_pc = "done"
    /\ proc_pc = "done"

----------------------------------------------------------------------------
(* Claims *)

\* C1: on a finite source, with no user quit and no inference failure,
\* app_start_running eventually completes: both threads terminate, both
\* joins return, and stop_event is set at completion.
C1_EventuallyCompletes ==
    <>((Completed /\ stop_event) \/ ~Undisturbed)

\* C2: in every state where camera_capture has terminated because cap.read()
\* returned no frame, stop_event is set.
C2_ReadFailureSetsStop ==
    (cap_pc = "done" /\ capExit = "read_failed") => stop_event

\* C3: after an inference step raised in process_frames, the stop signal
\* reaches camera_capture: at most one more frame_queue.put is performed.
C3_FailureStopsCapture ==
    procExit = "error" => putsAfterFail <= 1

\* C4: when app_start_running has returned, SendEmail was triggered if
\* process_frames ended on an inference exception, and was not triggered if
\* the run ended by end-of-stream or user quit.
C4_FailureEscalated ==
    main_pc = "done" =>
        /\ procExit = "error" => emailSent >= 1
        /\ (procExit /= "error" /\ log["thread error"] = 0) => emailSent = 0

\* C5: after a started stream, two stop_stream calls in a row release the
\* capture handle exactly once and the output writer exactly once.
C5_StopTwiceReleasesOnce ==
    (started /\ stopCalls = 2) =>
        (closeCapCalls = 1 /\ closeWriterCalls = 1)

\* C6: when start_stream followed by stop_stream has completed, every sample
\* the worker put on graph_queue has been forwarded to
\* plotter.update_live_density.
C6_NoSampleLostAtShutdown ==
    (started /\ s_pc = "idle" /\ stopSeq /\ st_pc = "idle" /\ stopCalls >= 1) =>
        plotted = produced

\* No put has timed out and the run is undisturbed.
C7_Pre == Undisturbed /\ dropped = {}

\* The frames taken off the queue, the frames in it and the frame
\* camera_capture is about to put, oldest first.
C7_InFlight ==
    Dequeued \o frame_queue \o (IF cap_pc = "put" THEN <<cap_frame>> ELSE <<>>)

\* C7: while no put has timed out and the run is undisturbed (no user quit,
\* no inference failure, both threads started), the frames read are the
\* frames processed, dequeued, queued or about to be put, each once and in
\* read order; and such a run reaches a state where camera_capture has
\* ended and process_frames has processed exactly the N frames read, in
\* order.
C7_AllProcessedInOrder ==
    /\ [](C7_Pre => C7_InFlight = Iota(nread))
    /\ <>(~C7_Pre \/ (cap_pc = "done" /\ processed = Iota(nread)))

C7_Witness ==
    /\ C7_Pre
    /\ capExit = "read_failed"
    /\ nread >= 3
    /\ processed = Iota(nread)

\* C8: under any interleaving, the frames dequeued by process_frames followed
\* by the frames still queued are a subsequence of the frames read: ids
\* within 1..nread, strictly increasing (no duplicate, no reordering), and no
\* dropped frame among them.
C8_DequeuedIsSubsequence ==
    /\ StrictlyIncreasing(Dequeued \o frame_queue)
    /\ Range(Dequeued \o frame_queue) \subseteq 1..nread
    /\ Range(Dequeued \o frame_queue) \cap dropped = {}

\* A frame was dropped and a frame read after it was dequeued.
C8_Witness ==
    \E d \in dropped : \E i \in 1..Len(Dequeued) : Dequeued[i] > d

\* A put call ends while the queue is full.
C9_DropStep ==
    (cap_pc = "put" /\ Len(frame_queue) = QueueMaxSize /\ cap_pc' /= "put") =>
        /\ frame_queue' = frame_queue
        /\ dropped' = dropped \cup {cap_frame}
        /\ log'["queue full"] = log["queue full"] + 1
        /\ cap_pc' = "waitKey"

\* C9: a put that ends on a full queue drops the frame (the queue is left as
\* it was, one 'queue full' event is logged, camera_capture moves on to
\* imshow/waitKey); a dropped frame is never in the queue nor dequeued
\* afterwards; and camera_capture never stays in put forever: it reaches
\* waitKey, and from there its next read or its end.
C9_NeverStalls ==
    /\ [][C9_DropStep]_vars
    /\ [](dropped \cap Range(Dequeued \o frame_queue) = {})
    /\ (cap_pc = "put") ~> (cap_pc = "waitKey")
    /\ (cap_pc = "waitKey") ~> (cap_pc \in {"read", "done"})

\* The consumer is dead, a frame was dropped, and a later frame was read.
C9_Witness ==
    /\ procExit = "error"
    /\ dropped /= {}
    /\ cap_pc = "put"
    /\ \A d \in dropped : cap_frame > d

\* The capacity bound, and the buffer and the drop count once camera_capture
\* has ended on end-of-stream with nothing dequeued.
C10_Buffered ==
    /\ Len(frame_queue) <= QueueMaxSize
    /\ (capExit = "read_failed" /\ Dequeued = <<>>) =>
          /\ Len(frame_queue) = Min(nread, QueueMaxSize)
          /\ log["queue full"] = nread - Min(nread, QueueMaxSize)
          /\ Cardinality(dropped) = nread - Min(nread, QueueMaxSize)

\* C10: frame_queue never holds more than QueueMaxSize frames; when
\* camera_capture has ended on end-of-stream after K frames and
\* process_frames has dequeued nothing, min(K, QueueMaxSize) frames are
\* buffered and K - min(K, QueueMaxSize) 'queue full' events were logged;
\* and camera_capture, once started, always terminates.
C10_CapacityAndDrops ==
    /\ []C10_Buffered
    /\ (cap_pc = "while") ~> (cap_pc = "done")

\* Seven or more frames were offered to a consumer that dequeued nothing.
C10_Witness ==
    /\ capExit = "read_failed"
    /\ Dequeued = <<>>
    /\ nread >= QueueMaxSize + 2
    /\ Len(frame_queue) = QueueMaxSize
    /\ log["queue full"] = nread - QueueMaxSize

\* C11 as claimed: no frame is enqueued in any state that follows the
\* false-to-true transition of stop_event.
C11_NoEnqueueAfterStop ==
    enqueuedAfterStop = 0

\* C11: once stop_event is true, camera_capture enqueues at most one further
\* frame (the put of the iteration that had already passed the loop test),
\* and that one only when the signal was set by finally after a failed
\* Thread.start; after a user quit it enqueues none.
C11_AtMostOneEnqueueAfterStop ==
    /\ enqueuedAfterStop <= 1
    /\ (enqueuedAfterStop = 1) => log["thread error"] = 1

\* A frame was enqueued after finally had set stop_event.
C11_Witness ==
    /\ enqueuedAfterStop = 1
    /\ cap_pc = "done"
    /\ capExit = "stop"

\* C12: when camera_capture has ended on the end of a finite source (all
\* srcLen frames read, the capture never released under it), no log_progress
\* event with status 'error' was emitted by it.
C12_CleanEndOfStreamNoError ==
    (capExit = "read_failed" /\ nread = srcLen /\ log["thread error"] = 0) =>
        log["capture error"] = 0

\* A process_graph_queue call returns.
C13_DrainReturns ==
    (s_pc = "drain" /\ s_pc' /= "drain") =>
        /\ graph_queue = <<>>
        /\ discarded = 0 => plotted = produced

\* C13: a process_graph_queue call always has a step to take (get_nowait
\* returns a sample or raises queue.Empty); it returns only on an empty
\* queue, having forwarded all that was queued; and the chart receives the
\* samples in the order the worker produced them: what is plotted and what
\* is still queued make up what was produced, as long as stop_stream has
\* thrown nothing away.
C13_DrainIsFifoAndNonBlocking ==
    /\ [](s_pc = "drain" => ENABLED (DrainGet \/ DrainEmpty))
    /\ [](StrictlyIncreasing(plotted))
    /\ [](discarded = 0 => plotted \o graph_queue = produced)
    /\ [][C13_DrainReturns]_vars

\* One drain call has forwarded samples 1 and 2 and has sample 3 left.
C13_Witness ==
    /\ s_pc = "drain"
    /\ plotted = <<1, 2>>
    /\ graph_queue = <<3>>
    /\ w_pc = "write"

\* Frames cap.read() has returned to run() and run() has passed to the
\* tracker: the read that ends the stream advances frame_id too.
C14_FramesTracked ==
    IF w_pc = "track" THEN frame_id - 1 ELSE Min(frame_id, sSrcLen)

\* C14: tracking_object is invoked once per successfully read frame, with
\* frame ids 1, 2, 3, ... in this order, and only by the one worker thread,
\* one invocation per step of it.
C14_TrackerOncePerFrameInOrder ==
    /\ [](tracked = Iota(C14_FramesTracked))
    /\ [][tracked' /= tracked =>
            /\ w_pc = "track"
            /\ tracked' = Append(tracked, Len(tracked) + 1)]_vars

\* The worker has tracked three frames and ended.
C14_Witness ==
    /\ tracked = <<1, 2, 3>>
    /\ w_pc = "done"

\* C15: whenever process_frames leaves its loop without a failure, no frame
\* remains in frame_queue.
C15_NormalExitLeavesQueueEmpty ==
    [][(proc_pc /= "done" /\ proc_pc' = "done" /\ procExit' = "stop") =>
          frame_queue = <<>>]_vars

\* camera_capture detects the user interrupt.
C16_QuitStep ==
    (capExit /= "quit" /\ capExit' = "quit") =>
        /\ stop_event'
        /\ cap_pc' = "done"
        /\ frame_queue' = frame_queue

\* app_start_running has returned: cap.release() has run, camera_capture has
\* ended, and process_frames has ended unless its Thread.start raised.
C16_Stopped ==
    /\ main_pc = "done"
    /\ released
    /\ cap_pc = "done"
    /\ proc_pc = "done" \/ log["thread error"] = 1

\* C16: on a user interrupt camera_capture sets stop_event and ends with
\* frame_queue left as it is; from then on the run always reaches Stopped.
C16_QuitLeadsToStopped ==
    /\ [][C16_QuitStep]_vars
    /\ (capExit = "quit") ~> C16_Stopped

\* A run stopped by 'q' has returned through both joins with a frame still
\* queued.
C16_Witness ==
    /\ capExit = "quit"
    /\ C16_Stopped
    /\ procExit = "stop"
    /\ log["threads completed"] = 1
    /\ frame_queue /= <<>>

\* close_cap or close_writer has run.
C17_Closed == closeCapCalls + closeWriterCalls > 0

\* The worker thread does not exist or has terminated.
C17_WorkerDead == w_pc \in {"none", "done"}

C18_AfterFailure ==
    procExit = "error" =>
        /\ log["processing error"] = 1
        /\ proc_pc = "done"
        /\ proc_frame = 0
        /\ failedFrame \in 1..nread
        /\ (1..(failedFrame - 1)) \ dropped = Range(processed)

\* C18: an inference failure on frame k is reported exactly once, the frames
\* before k are fully processed, and from then on process_frames dequeues
\* and processes nothing (no retry, no further frame).
C18_FailureStopsProcessingOnce ==
    /\ [](log["processing error"] <= 1)
    /\ []C18_AfterFailure
    /\ [][procExit = "error" =>
            /\ UNCHANGED <<processed, proc_frame, failedFrame>>
            /\ Len(frame_queue') >= Len(frame_queue)]_vars

\* Inference raised on the third frame with further frames queued.
C18_Witness ==
    /\ procExit = "error"
    /\ failedFrame = 3
    /\ processed = <<1, 2>>
    /\ frame_queue /= <<>>

\* process_frames is at its loop test, or has left the loop.
C19_BetweenFrames == proc_pc \in {"while", "done"}

\* C19: once stop_event is set (and it stays set), process_frames takes at
\* most one further frame off frame_queue; when the frame in hand is
\* finished the loop ends, so nothing else is dequeued or processed and the
\* frames still queued stay where they are.
C19_AtMostOneFrameAfterStop ==
    /\ [](getsAfterStop <= 1)
    /\ [][stop_event => stop_event']_vars
    /\ [][(stop_event /\ C19_BetweenFrames) =>
            /\ C19_BetweenFrames'
            /\ UNCHANGED <<processed, proc_frame>>
            /\ Len(frame_queue') >= Len(frame_queue)]_vars

\* The signal was set while a get was pending: that one frame was taken and
\* processed, the loop ended, and frames are left in the queue unprocessed.
C19_Witness ==
    /\ getsAfterStop = 1
    /\ procExit = "stop"
    /\ proc_pc = "done"
    /\ Len(processed) >= 1
    /\ Len(frame_queue) >= 2

====
